---- MODULE Spec2Model ----
(***************************************************************************)
(* A model of prompty's tracer (src/runtime/prompty/prompty/tracer.py):     *)
(* the sanitizer, the serializer, the process-wide sink registry and its   *)
(* fan-out (Tracer), the instrumentation wrappers (_trace_sync and         *)
(* _trace_async) and the file-backed span recorder (PromptyTracer).        *)
(*                                                                         *)
(* Python values are tagged records, one field per Python type:            *)
(*   [s |-> <<chars>>]  str          [n |-> i]     Number (int)            *)
(*   [b |-> BOOLEAN]    bool         [none |-> 0]  None                    *)
(*   [l |-> <<values>>] list         [d |-> f]     dict, f a function from *)
(*   [dt |-> tick]      datetime                   keys (char tuples)      *)
(*   [o |-> <<chars>>]  any other object, carrying its str()               *)
(*   [ref |-> fid]      a reference to a frame dict of the recorder        *)
(* A Python string is the tuple of its characters, so that length,         *)
(* lower-casing and substring search are computed and not assumed.         *)
(***************************************************************************)
EXTENDS Integers, Sequences, FiniteSets, TLC

VARIABLES
    tracers,    \* Tracer._tracers: the ordered mapping sink name -> factory
    stack,      \* PromptyTracer.stack: the frame dicts pushed and not yet popped
    heap,       \* the frame dicts ever created, by identity: fid -> dict
    artifacts,  \* the trace files written (json.dump of an enriched frame), in order
    clock,      \* datetime.now(), as a tick that advances at every reading
    log,        \* what each sink observed, in order: scope opens, emits, scope closes
    spans,      \* every Tracer.start call so far, by span id: its scopes and its fate
    calls,      \* per call chain: the span ids of its open `with Tracer.start` blocks
    running     \* the call chain that holds the interpreter, 0 when all are suspended

vars == <<tracers, stack, heap, artifacts, clock, log, spans, calls, running>>

-----------------------------------------------------------------------------
(* Python values *)

IsStr(v)  == DOMAIN v = {"s"}
IsNum(v)  == DOMAIN v = {"n"}
IsBool(v) == DOMAIN v = {"b"}
IsNone(v) == DOMAIN v = {"none"}
IsList(v) == DOMAIN v = {"l"}
IsDict(v) == DOMAIN v = {"d"}
IsDatetime(v) == DOMAIN v = {"dt"}
IsPath(v) == DOMAIN v = {"path"}
IsModel(v) == DOMAIN v = {"model"}
IsPrompty(v) == DOMAIN v = {"prompty"}
IsStream(v) == DOMAIN v = {"stream"}
IsAsyncStream(v) == DOMAIN v = {"astream"}
IsObj(v)  == DOMAIN v = {"o"}
IsRef(v)  == DOMAIN v = {"ref"}

Str(chars) == [s |-> chars]
Num(i)     == [n |-> i]
None       == [none |-> 0]
List(seq)  == [l |-> seq]
Dict(f)    == [d |-> f]
EmptyDict  == Dict(<<>>)

\* the keys the tracer itself reads and writes
K_name        == <<"n","a","m","e">>
K_time        == <<"_","_","t","i","m","e">>
K_usage       == <<"_","_","u","s","a","g","e">>
K_frames      == <<"_","_","f","r","a","m","e","s">>
K_result      == <<"r","e","s","u","l","t">>
K_resultUsage == <<"u","s","a","g","e">>
K_signature   == <<"s","i","g","n","a","t","u","r","e">>
K_description == <<"d","e","s","c","r","i","p","t","i","o","n">>
K_type        == <<"t","y","p","e">>
K_inputs      == <<"i","n","p","u","t","s">>
K_exception   == <<"e","x","c","e","p","t","i","o","n">>
K_traceback   == <<"t","r","a","c","e","b","a","c","k">>
K_message     == <<"m","e","s","s","a","g","e">>
K_args        == <<"a","r","g","s">>
K_start       == <<"s","t","a","r","t">>
K_end         == <<"e","n","d">>
K_duration    == <<"d","u","r","a","t","i","o","n">>

\* dict display {k1: v1, k2: v2}
Dict1(k, v) == Dict(k :> v)
Dict2(k1, v1, k2, v2) == Dict((k1 :> v1) @@ (k2 :> v2))

-----------------------------------------------------------------------------
(* sanitize, tracer.py 16-24 *)

\* str.lower() on the characters the model uses
LowerChar(c) ==
    CASE c = "A" -> "a" [] c = "E" -> "e" [] c = "K" -> "k" [] c = "Y" -> "y"
      [] c = "T" -> "t" [] c = "O" -> "o" [] c = "N" -> "n" [] c = "I" -> "i"
      [] c = "P" -> "p" [] c = "S" -> "s" [] c = "R" -> "r" [] c = "C" -> "c"
      [] c = "D" -> "d" [] c = "W" -> "w" [] c = "L" -> "l"
      [] OTHER -> c

\* Lower as it would be were the key compared without key.lower()
Lower_AsIs(chars) == chars

Lower(chars) == [i \in DOMAIN chars |-> LowerChar(chars[i])]

\* `sub in text` on strings: some window of text equals sub
Contains(text, sub) ==
    \E i \in 0..(Len(text) - Len(sub)) :
        \A j \in 1..Len(sub) : text[i + j] = sub[j]

SensitiveWords ==
    << <<"k","e","y">>, <<"t","o","k","e","n">>, <<"s","e","c","r","e","t">>,
       <<"p","a","s","s","w","o","r","d">>,
       <<"c","r","e","d","e","n","t","i","a","l">> >>

IsSensitive(key) ==
    \E i \in DOMAIN SensitiveWords : Contains(Lower(key), SensitiveWords[i])

\* len(str(value)) * "*"
Stars(chars) == [i \in DOMAIN chars |-> "*"]

\* sanitize as it would be were the entries of a mapping redacted under the
\* outer key and not under their own
RECURSIVE sanitize_UnderOuterKey(_, _)
sanitize_UnderOuterKey(key, value) ==
    IF IsStr(value) /\ IsSensitive(key) THEN Str(Stars(value.s))
    ELSE IF IsDict(value)
         THEN Dict([k \in DOMAIN value.d |-> sanitize_UnderOuterKey(key, value.d[k])])
         ELSE value

RECURSIVE sanitize(_, _)
sanitize(key, value) ==
    IF IsStr(value) /\ IsSensitive(key) THEN Str(Stars(value.s))
    ELSE IF IsDict(value)
         THEN Dict([k \in DOMAIN value.d |-> sanitize(k, value.d[k])])
         ELSE value

-----------------------------------------------------------------------------
(* to_dict, tracer.py 54-81 *)

S_PromptyStream ==
    <<"P","r","o","m","p","t","y","S","t","r","e","a","m">>
S_AsyncPromptyStream == <<"A","s","y","n","c">> \o S_PromptyStream
S_None == <<"N","o","n","e">>

\* datetime.isoformat(): the text of the instant; the model writes tick t as "T<t>"
isoformat(v) == <<"T", ToString(v.dt)>>

\* str(obj) of the objects to_dict does not classify
str(obj) ==
    IF IsNone(obj) THEN S_None
    ELSE IF IsObj(obj) THEN obj.o
    ELSE IF IsPath(obj) THEN obj.path
    ELSE <<"?">>

\* to_dict as it would be were a list rebuilt as a tuple, which the next
\* to_dict no longer takes for a list
to_dict_TupleForList(obj) ==
    IF IsStr(obj) \/ IsNum(obj) \/ IsBool(obj) \/ IsDict(obj) THEN obj
    ELSE IF IsList(obj) THEN [o |-> <<"(", ")">>]
    ELSE Str(str(obj))

RECURSIVE to_dict(_)
to_dict(obj) ==
    IF IsStr(obj) \/ IsNum(obj) \/ IsBool(obj) THEN obj
    ELSE IF IsDatetime(obj) THEN Str(isoformat(obj))
    ELSE IF IsPrompty(obj) THEN obj.prompty
    ELSE IF IsStream(obj) THEN Str(S_PromptyStream)
    ELSE IF IsAsyncStream(obj) THEN Str(S_AsyncPromptyStream)
    ELSE IF IsModel(obj) THEN obj.model
    ELSE IF IsList(obj) THEN List([i \in DOMAIN obj.l |-> to_dict(obj.l[i])])
    ELSE IF IsDict(obj)
         THEN Dict([k \in DOMAIN obj.d |->
                       IF IsStr(obj.d[k]) THEN obj.d[k] ELSE to_dict(obj.d[k])])
    ELSE IF IsPath(obj) THEN Str(obj.path)
    ELSE Str(str(obj))

-----------------------------------------------------------------------------
(* PromptyTracer, tracer.py 206-307 *)

\* The interpreter state the sinks act on, passed through the steps of a handler.
World == [stack |-> stack, heap |-> heap, artifacts |-> artifacts,
          clock |-> clock, log |-> log]

\* datetime.strftime("%Y-%m-%dT%H:%M:%S.%f"): the text of the instant, with its
\* microseconds field written out
strftime(v) == <<"T", ToString(v.dt), ".", "f">>

\* self.stack.append({"name": name}); frame["__time"] = {"start": now}   (221-225)
RecorderEnter(w, name) ==
    LET frame == (K_name :> Str(name)) @@
                 (K_time :> Dict1(K_start, [dt |-> w.clock]))
    IN [w EXCEPT !.heap = Append(@, frame),
                 !.stack = Append(@, Len(w.heap) + 1),
                 !.clock = @ + 1]

\* PushedFrame as it would be were the closure to take the first frame of the
\* stack and not the last
PushedFrame_Oldest(w) == w.stack[1]

\* the id of the frame a scope of the recorder has just pushed: frame = self.stack[-1]
PushedFrame(w) == w.stack[Len(w.stack)]

\* add(key, value), the closure over the frame pushed at open   (227-235)
add(frame, key, value) ==
    IF key \notin DOMAIN frame
    THEN frame @@ (key :> value)
    ELSE IF IsList(frame[key])
         THEN [frame EXCEPT ![key] = List(Append(frame[key].l, value))]
         ELSE [frame EXCEPT ![key] = List(<<frame[key], value>>)]

\* a += b on the values usage counters hold; any other pair raises TypeError
CanAdd(a, b) ==
    \/ IsNum(a) /\ IsNum(b)
    \/ IsStr(a) /\ IsStr(b)
    \/ IsList(a) /\ IsList(b)

Plus(a, b) ==
    IF IsNum(a) THEN Num(a.n + b.n)
    ELSE IF IsStr(a) THEN Str(a.s \o b.s)
    ELSE List(a.l \o b.l)

\* Accumulate as it would be with `=` in place of `+=`
Accumulate_Overwrite(acc, u) ==
    [k \in DOMAIN acc \cup DOMAIN u |-> IF k \in DOMAIN u THEN u[k] ELSE acc[k]]

\* for key, value in u.items():
\*     if key not in acc: acc[key] = value  else: acc[key] += value   (269-273, 281-285)
CanAccumulate(acc, u) ==
    \A k \in DOMAIN u \cap DOMAIN acc : CanAdd(acc[k], u[k])

Accumulate(acc, u) ==
    [k \in DOMAIN acc \cup DOMAIN u |->
        IF k \notin DOMAIN u THEN acc[k]
        ELSE IF k \notin DOMAIN acc THEN u[k]
        ELSE Plus(acc[k], u[k])]

\* if "__usage" not in frame: frame["__usage"] = {}; then accumulate u into it.
\* h = [f |-> the frame, ok |-> nothing raised yet, alias |-> frame["__usage"] is
\* the very dict frame["result"]["usage"]]
UsageInto(h, u) ==
    LET f0 == IF K_usage \in DOMAIN h.f THEN h.f ELSE h.f @@ (K_usage :> EmptyDict)
    IN IF ~h.ok THEN h
       ELSE IF IsDict(f0[K_usage]) /\ CanAccumulate(f0[K_usage].d, u.d)
            THEN [h EXCEPT !.f = [f0 EXCEPT ![K_usage] =
                                     Dict(Accumulate(f0[K_usage].d, u.d))]]
            ELSE [h EXCEPT !.f = f0, !.ok = FALSE]

\* hoist usage from the frame's own result when it is a dict   (251-257)
HoistOwn(f) ==
    IF K_result \in DOMAIN f /\ IsDict(f[K_result])
       /\ K_resultUsage \in DOMAIN f[K_result].d
    THEN LET u == f[K_result].d[K_resultUsage]
         IN IF K_usage \in DOMAIN f
            THEN \* frame["__usage"][key] += value, for every key of the result's usage
                 IF /\ IsDict(f[K_usage]) /\ IsDict(u)
                    /\ \A k \in DOMAIN u.d :
                          k \in DOMAIN f[K_usage].d /\ CanAdd(f[K_usage].d[k], u.d[k])
                 THEN [f |-> [f EXCEPT ![K_usage] =
                                 Dict([k \in DOMAIN f[K_usage].d |->
                                         IF k \in DOMAIN u.d
                                         THEN Plus(f[K_usage].d[k], u.d[k])
                                         ELSE f[K_usage].d[k]])],
                       ok |-> TRUE, alias |-> FALSE]
                 ELSE [f |-> f, ok |-> FALSE, alias |-> FALSE]
            ELSE \* frame["__usage"] = frame["result"]["usage"]: the same dict object
                 [f |-> f @@ (K_usage :> u), ok |-> TRUE, alias |-> TRUE]
    ELSE [f |-> f, ok |-> TRUE, alias |-> FALSE]

\* streamed results: the result is a list, each dict element with a usage dict
\* is accumulated, from element i on   (260-273)
RECURSIVE HoistStream(_, _)
HoistStream(h, i) ==
    IF ~(K_result \in DOMAIN h.f /\ IsList(h.f[K_result])) THEN h
    ELSE IF i > Len(h.f[K_result].l) THEN h
    ELSE LET result == h.f[K_result].l[i]
         IN IF IsDict(result) /\ K_resultUsage \in DOMAIN result.d
               /\ IsDict(result.d[K_resultUsage])
            THEN HoistStream(UsageInto(h, result.d[K_resultUsage]), i + 1)
            ELSE HoistStream(h, i + 1)

\* usage of the frames below: every child in frame["__frames"] that has "__usage",
\* from child i on   (276-285)
RECURSIVE HoistChildren(_, _, _)
HoistChildren(hp, h, i) ==
    IF ~(K_frames \in DOMAIN h.f /\ IsList(h.f[K_frames])) THEN h
    ELSE IF i > Len(h.f[K_frames].l) THEN h
    ELSE LET child == hp[h.f[K_frames].l[i].ref]
         IN IF K_usage \in DOMAIN child
            THEN IF IsDict(child[K_usage])
                 THEN HoistChildren(hp, UsageInto(h, child[K_usage]), i + 1)
                 ELSE [h EXCEPT !.ok = FALSE]
            ELSE HoistChildren(hp, h, i + 1)

\* What the additions made through frame["__usage"] did to frame["result"]["usage"]
\* when the two are one dict object.
WriteThrough(h) ==
    IF h.alias /\ K_usage \in DOMAIN h.f
    THEN [h EXCEPT !.f = [h.f EXCEPT ![K_result] =
             Dict([k \in DOMAIN h.f[K_result].d |->
                     IF k = K_resultUsage THEN h.f[K_usage]
                     ELSE h.f[K_result].d[k]])]]
    ELSE h

\* lines 250-285 on the popped frame f, the heap giving its children
Hoist(hp, f) == WriteThrough(HoistChildren(hp, HoistStream(HoistOwn(f), 1), 1))

\* frame["__time"] = {start, end, duration}   (240-248)
Finalize(f, now) ==
    LET begin == f[K_time].d[K_start]
    IN [f EXCEPT ![K_time] =
          Dict((K_start :> Str(strftime(begin))) @@
               (K_end :> Str(strftime([dt |-> now]))) @@
               (K_duration :> Num(now - begin.dt)))]

\* json.dump(frame): the frame with every child reference written out in place
RECURSIVE Dump(_, _)
Dump(hp, v) ==
    IF IsRef(v) THEN Dump(hp, Dict(hp[v.ref]))
    ELSE IF IsList(v) THEN List([i \in DOMAIN v.l |-> Dump(hp, v.l[i])])
    ELSE IF IsDict(v) THEN Dict([k \in DOMAIN v.d |-> Dump(hp, v.d[k])])
    ELSE v

K_runtime == <<"r","u","n","t","i","m","e">>
K_version == <<"v","e","r","s","i","o","n">>
K_trace   == <<"t","r","a","c","e">>
S_python  == <<"p","y","t","h","o","n">>
S_tracy   == <<"t","r","a","c","y">>

\* Python exceptions: the class, str(e), and whether the class derives from
\* Exception (and not only from BaseException)
Exc(cls, msg, isException) == [cls |-> cls, msg |-> msg, isException |-> isException]
E_io    == Exc("OSError", <<"i","o">>, TRUE)
E_hoist == Exc("TypeError", <<"+","=">>, TRUE)

\* the file written for a root frame: "<name>.<now>.tracy" holding the enriched
\* frame {runtime, version, trace}   (289-302)
TraceFile(hp, fid, now) ==
    [file |-> hp[fid][K_name].s \o <<".", ToString(now), ".">> \o S_tracy,
     root |-> fid,
     json |-> Dict((K_runtime :> Str(S_python)) @@
                   (K_version :> Str(<<"v">>)) @@
                   (K_trace :> Dump(hp, [ref |-> fid])))]

\* AppendChild as it would be were the frame inserted at the head of the list
AppendChild_AtHead(parent, fid) ==
    IF K_frames \notin DOMAIN parent
    THEN parent @@ (K_frames :> List(<<[ref |-> fid]>>))
    ELSE [parent EXCEPT ![K_frames] = List(<<[ref |-> fid]>> \o parent[K_frames].l)]

\* AppendChild as it would be were the list created anew at every append
AppendChild_NewList(parent, fid) ==
    (K_frames :> List(<<[ref |-> fid]>>)) @@ parent

\* self.stack[-1]["__frames"].append(frame), creating the list first   (305-307)
AppendChild(parent, fid) ==
    IF K_frames \notin DOMAIN parent
    THEN parent @@ (K_frames :> List(<<[ref |-> fid]>>))
    ELSE [parent EXCEPT ![K_frames] = List(Append(parent[K_frames].l, [ref |-> fid]))]

\* RecorderClose as it would be were the frame taken off the stack at the end
\* of the block and not at its beginning: what raises before leaves it there
RecorderClose_PopsAtEnd(w, io, fid, h) ==
    IF ~h.ok THEN [w |-> w, exc |-> <<E_hoist>>, fid |-> fid]
    ELSE IF Len(w.stack) = 1
    THEN IF io
         THEN [w |-> [w EXCEPT !.stack = <<>>, !.clock = w.clock + 2,
                               !.heap = [@ EXCEPT ![fid] = h.f],
                               !.artifacts = Append(@, TraceFile(
                                   [w.heap EXCEPT ![fid] = h.f], fid, w.clock + 1))],
               exc |-> <<>>, fid |-> fid]
         ELSE [w |-> w, exc |-> <<E_io>>, fid |-> fid]
    ELSE [w |-> [w EXCEPT !.stack = SubSeq(@, 1, Len(@) - 1), !.clock = w.clock + 1,
                          !.heap = [@ EXCEPT ![fid] = h.f,
                                             ![w.stack[Len(w.stack) - 1]] =
                                                 AppendChild(@, fid)]],
          exc |-> <<>>, fid |-> fid]

\* The end of the finally block, once the popped frame fid has its timing and
\* h = its hoisted usage: the heap takes the frame as mutated, then the frame
\* is written out or handed to the new top   (287-307)
RecorderClose(w, io, fid, h) ==
    LET rest   == SubSeq(w.stack, 1, Len(w.stack) - 1)
        now    == w.clock
        popped == [w EXCEPT !.stack = rest, !.clock = now + 1,
                            !.heap = [@ EXCEPT ![fid] = h.f]]
    IN IF ~h.ok THEN [w |-> popped, exc |-> <<E_hoist>>, fid |-> fid]
       ELSE IF Len(rest) = 0
       THEN IF io
            THEN [w |-> [popped EXCEPT !.artifacts =
                            Append(@, TraceFile(popped.heap, fid, now + 1)),
                                     !.clock = now + 2],
                  exc |-> <<>>, fid |-> fid]
            ELSE [w |-> popped, exc |-> <<E_io>>, fid |-> fid]
       ELSE [w |-> [popped EXCEPT !.heap =
                       [@ EXCEPT ![rest[Len(rest)]] = AppendChild(@, fid)]],
             exc |-> <<>>, fid |-> fid]

\* The exit of a recorder scope: the finally block   (239-307).  It pops the top
\* of the stack, whichever scope pushed it.  io: the version lookup, open() and
\* json.dump succeed.  Gives the new world, the popped frame and exc: what the
\* block raised, if anything.
RecorderExit(w, io) ==
    RecorderClose(w, io, w.stack[Len(w.stack)],
                  Hoist(w.heap, Finalize(w.heap[w.stack[Len(w.stack)]], w.clock)))

-----------------------------------------------------------------------------
(* The sinks behind the plugin interface: a factory takes the span name and   *)
(* gives a scope that yields an emit callback.                                *)

F_prompty  == "PromptyTracer.tracer"   \* the bound method of the one recorder
F_console  == "console_tracer"         \* tracer.py 310-318
F_badopen  == "raises_on_open"         \* a plugin whose scope fails to open
F_bademit  == "raises_on_emit"         \* a plugin whose emit callback raises

E_open == Exc("RuntimeError", <<"o","p","e","n">>, TRUE)
E_emit == Exc("RuntimeError", <<"e","m","i","t">>, TRUE)

\* what a sink observes
EvOpen(h, sid)  == [op |-> "open", sink |-> h.sink, span |-> sid]
EvEmit(h, sid, key, value) ==
    [op |-> "emit", sink |-> h.sink, span |-> sid, key |-> key, value |-> value]
EvClose(h, sid, fid) ==
    [op |-> "close", sink |-> h.sink, span |-> sid, popped |-> fid]

Logged(w, ev) == [w EXCEPT !.log = Append(@, ev)]

\* the scope of the recorder, opened: w is the world with the frame pushed
RecorderEntered(w, h0, sid) ==
    [w |-> Logged(w, EvOpen(h0, sid)), exc |-> <<>>,
     h |-> [h0 EXCEPT !.fid = PushedFrame(w)]]

\* stack.enter_context(tracer(name)) for one registered factory   (45).
\* h is the scope: the sink, its factory and, for the recorder, the frame its
\* add closure holds.
SinkEnter(w, reg, name, sid) ==
    LET h0 == [sink |-> reg.name, factory |-> reg.factory, fid |-> 0]
    IN IF reg.factory = F_badopen
       THEN [w |-> w, exc |-> <<E_open>>, h |-> h0]
       ELSE IF reg.factory = F_prompty
       THEN RecorderEntered(RecorderEnter(w, name), h0, sid)
       ELSE \* console_tracer prints "Starting <name>"; the other plugins just open
            [w |-> Logged(w, EvOpen(h0, sid)), exc |-> <<>>, h |-> h0]

\* trace(key, value) on one sink's callback
SinkEmit(w, h, sid, key, value) ==
    IF h.factory = F_prompty
    THEN [w |-> Logged([w EXCEPT !.heap = [@ EXCEPT ![h.fid] = add(@, key, value)]],
                       EvEmit(h, sid, key, value)),
          exc |-> <<>>]
    ELSE IF h.factory = F_console
    THEN \* print(key, json.dumps(to_dict(value))): the log keeps what was
         \* received and, beside it, what was printed   (314-316)
         [w |-> Logged(w, [op |-> "emit", sink |-> h.sink, span |-> sid, key |-> key,
                           value |-> value, printed |-> to_dict(value)]),
          exc |-> <<>>]
    ELSE IF h.factory = F_bademit
    THEN [w |-> Logged(w, EvEmit(h, sid, key, value)), exc |-> <<E_emit>>]
    ELSE [w |-> Logged(w, EvEmit(h, sid, key, value)), exc |-> <<>>]

\* the teardown of one sink's scope; r is what the recorder's finally block did
RecorderExited(h, sid, r) ==
    [w |-> Logged(r.w, EvClose(h, sid, r.fid)), exc |-> r.exc]

SinkExit(w, h, sid, io) ==
    IF h.factory = F_prompty
    THEN RecorderExited(h, sid, RecorderExit(w, io))
    ELSE \* console_tracer prints "Ending <name>"
         [w |-> Logged(w, EvClose(h, sid, 0)), exc |-> <<>>]

-----------------------------------------------------------------------------
(* Tracer, tracer.py 27-51 *)

\* cls._tracers[name] = tracer: a dict keeps the place of a key it already has
RegistryAdd(regs, name, factory) ==
    IF \E i \in DOMAIN regs : regs[i].name = name
    THEN [i \in DOMAIN regs |->
            IF regs[i].name = name THEN [regs[i] EXCEPT !.factory = factory]
            ELSE regs[i]]
    ELSE Append(regs, [name |-> name, factory |-> factory])

\* ExitStack.__exit__: the scopes entered so far are torn down last-entered
\* first, scope i and below; a teardown that raises does not stop the others,
\* and the exception that comes out is the last one raised.  ExitNext goes on
\* after the teardown r of scope i.
RECURSIVE ExitFrom(_, _, _, _, _, _), ExitNext(_, _, _, _, _, _)
ExitFrom(w, hs, i, sid, io, exc) ==
    IF i = 0 THEN [w |-> w, exc |-> exc]
    ELSE ExitNext(SinkExit(w, hs[i], sid, io), hs, i, sid, io, exc)

ExitNext(r, hs, i, sid, io, exc) ==
    ExitFrom(r.w, hs, i - 1, sid, io, IF r.exc = <<>> THEN exc ELSE r.exc)

\* ExitAll as it would be were the scopes torn down in the order they were
\* entered, from scope i on
RECURSIVE ExitForward(_, _, _, _, _, _)
ExitForward(w, hs, i, sid, io, exc) ==
    IF i > Len(hs) THEN [w |-> w, exc |-> exc]
    ELSE ExitForward(SinkExit(w, hs[i], sid, io).w, hs, i + 1, sid, io,
                     IF SinkExit(w, hs[i], sid, io).exc = <<>> THEN exc
                     ELSE SinkExit(w, hs[i], sid, io).exc)

ExitAll_InOpeningOrder(w, hs, sid, io, exc) == ExitForward(w, hs, 1, sid, io, exc)

ExitAll(w, hs, sid, io, exc) == ExitFrom(w, hs, Len(hs), sid, io, exc)

\* what Tracer.start gives when a factory raised: x is the unwinding of the
\* scopes hs entered before it
Unwound(x, hs) == [w |-> x.w, exc |-> x.exc, handles |-> hs]

\* traces = [stack.enter_context(tracer(name)) for tracer in cls._tracers.values()]
\* from factory Len(hs)+1 on   (43-46).  A factory that raises ends the
\* comprehension inside the ExitStack block, which unwinds.  EnterNext goes on
\* after the attempt r to enter the next scope.
RECURSIVE EnterFrom(_, _, _, _, _, _), EnterNext(_, _, _, _, _, _)
EnterFrom(w, regs, name, sid, io, hs) ==
    IF Len(hs) = Len(regs) THEN [w |-> w, exc |-> <<>>, handles |-> hs]
    ELSE EnterNext(SinkEnter(w, regs[Len(hs) + 1], name, sid), regs, name, sid, io, hs)

\* EnterNext as it would be were the scopes entered outside an ExitStack: a
\* factory that raises leaves the scopes entered before it open
EnterNext_NoUnwind(r, regs, name, sid, io, hs) ==
    IF r.exc = <<>>
    THEN EnterFrom(r.w, regs, name, sid, io, Append(hs, r.h))
    ELSE [w |-> r.w, exc |-> r.exc, handles |-> hs]

EnterNext(r, regs, name, sid, io, hs) ==
    IF r.exc = <<>>
    THEN EnterFrom(r.w, regs, name, sid, io, Append(hs, r.h))
    ELSE Unwound(ExitAll(r.w, hs, sid, io, r.exc), hs)

\* Tracer.start(name) up to its yield
TracerStart(w, regs, name, sid, io) == EnterFrom(w, regs, name, sid, io, <<>>)

\* the yielded lambda: [trace(key, sanitize(key, to_dict(value))) for trace in traces],
\* from scope i on   (47-51).  EmitNext goes on after the call r of scope i's
\* callback.
\* Sanitized as it would be were the value normalized and not redacted
Sanitized_NotRedacted(key, value) == to_dict(value)

Sanitized(key, value) == sanitize(key, to_dict(value))

RECURSIVE EmitFrom(_, _, _, _, _, _), EmitNext(_, _, _, _, _, _)
EmitFrom(w, hs, i, sid, key, value) ==
    IF i > Len(hs) THEN [w |-> w, exc |-> <<>>]
    ELSE EmitNext(SinkEmit(w, hs[i], sid, key, Sanitized(key, value)),
                  hs, i, sid, key, value)

EmitNext(r, hs, i, sid, key, value) ==
    IF r.exc = <<>> THEN EmitFrom(r.w, hs, i + 1, sid, key, value) ELSE r

\* The call of the yielded lambda is itself written to the log, before what it
\* delivers, with the value as the caller passed it.
EvCall(sid, key, value) ==
    [op |-> "call", sink |-> "", span |-> sid, key |-> key, value |-> value]

\* the scopes of hs whose sink is registered, with the same factory, right now
StillRegistered(hs) ==
    LET Registered(h) == \E i \in DOMAIN tracers :
                             tracers[i].name = h.sink /\ tracers[i].factory = h.factory
    IN SelectSeq(hs, Registered)

\* CompositeEmit as it would be were the registry read at every emit and not
\* once, at start
CompositeEmit_ReadsRegistry(w, hs, sid, key, value) ==
    EmitFrom(Logged(w, EvCall(sid, key, value)), StillRegistered(hs), 1, sid, key, value)

CompositeEmit(w, hs, sid, key, value) ==
    EmitFrom(Logged(w, EvCall(sid, key, value)), hs, 1, sid, key, value)

\* a step of a handler that runs only when nothing was raised before it
ThenEmit(r, hs, sid, key, value) ==
    IF r.exc = <<>> THEN CompositeEmit(r.w, hs, sid, key, value) ELSE r

-----------------------------------------------------------------------------
(* The instrumentation wrapper, tracer.py 84-203 *)

\* bool(v) of the values a description or a type can be
Truthy(v) ==
    IF IsNone(v) THEN FALSE
    ELSE IF IsStr(v) THEN v.s # <<>>
    ELSE IF IsNum(v) THEN v.n # 0
    ELSE IF IsBool(v) THEN v.b
    ELSE IF IsList(v) THEN v.l # <<>>
    ELSE IF IsDict(v) THEN DOMAIN v.d # {}
    ELSE TRUE

S_dot == <<".">>
S_coreInvoker ==
    <<"p","r","o","m","p","t","y",".","c","o","r","e",".",
      "I","n","v","o","k","e","r",".","_","_","c","a","l","l","_","_">>
S_invoke == <<"i","n","v","o","k","e">>
S_self == <<"s","e","l","f">>

IsInstance(v) == DOMAIN v = {"inst"}

\* _name(func, args)   (84-98)
_name(func, args) ==
    LET signature == func.module \o S_dot \o func.qualname
    IN IF signature = S_coreInvoker
       THEN [name |-> args.pos[1].inst.cls,
             signature |-> args.pos[1].inst.module \o S_dot \o args.pos[1].inst.cls
                           \o S_dot \o S_invoke]
       ELSE [name |-> func.name, signature |-> signature]

E_bind == Exc("TypeError", <<"b","i","n","d">>, TRUE)

ParamIndex(params, name) == {i \in DOMAIN params : params[i].name = name}

\* inspect.signature(func).bind(*args, **kwargs) on positional-or-keyword
\* parameters: too many positionals, an unknown keyword, a parameter given twice
\* or a parameter given no value and having no default raise TypeError
BindFails(params, args) ==
    \/ Len(args.pos) > Len(params)
    \/ \E k \in DOMAIN args.kw :
          \/ ParamIndex(params, k) = {}
          \/ \E i \in ParamIndex(params, k) : i <= Len(args.pos)
    \/ \E i \in DOMAIN params :
          /\ i > Len(args.pos)
          /\ params[i].name \notin DOMAIN args.kw
          /\ params[i].default = <<>>

\* ba.arguments after apply_defaults(): parameter name -> argument
Bound(params, args) ==
    [k \in {params[i].name : i \in DOMAIN params} |->
        LET i == CHOOSE j \in DOMAIN params : params[j].name = k
        IN IF i <= Len(args.pos) THEN args.pos[i]
           ELSE IF k \in DOMAIN args.kw THEN args.kw[k]
           ELSE params[i].default[1]]

\* _inputs as it would be without the filter `if k != "self"`
_inputs_KeepsSelf(func, args) ==
    IF BindFails(func.params, args)
    THEN [exc |-> <<E_bind>>, inputs |-> EmptyDict]
    ELSE [exc |-> <<>>,
          inputs |-> Dict([k \in DOMAIN Bound(func.params, args) |->
                              to_dict(Bound(func.params, args)[k])])]

\* _inputs(func, args, kwargs)   (101-107)
_inputs(func, args) ==
    IF BindFails(func.params, args)
    THEN [exc |-> <<E_bind>>, inputs |-> EmptyDict]
    ELSE LET ba == Bound(func.params, args)
         IN [exc |-> <<>>,
             inputs |-> Dict([k \in DOMAIN ba \ {S_self} |-> to_dict(ba[k])])]

\* _results(result)   (110-111)
_results(result) == IF ~IsNone(result) THEN to_dict(result) ELSE Str(S_None)

\* The wrapper from its first emit to the emit of the inputs   (123-131,
\* 164-172), each step taking r, what the steps before it left: the world and
\* the exception raised, if any.
EmitDescription(r, hs, sid, description) ==
    IF Truthy(description) /\ description # Str(<<>>)
    THEN ThenEmit(r, hs, sid, K_description, description)
    ELSE r

EmitType(r, hs, sid, type) ==
    IF Truthy(type) /\ type # Str(<<>>)
    THEN ThenEmit(r, hs, sid, K_type, type)
    ELSE r

EmitInputs(r, hs, sid, b) ==
    IF r.exc # <<>> THEN r
    ELSE IF b.exc # <<>> THEN [w |-> r.w, exc |-> b.exc]
    ELSE CompositeEmit(r.w, hs, sid, K_inputs, b.inputs)

\* w is the world Tracer.start left, hs the scopes it opened
WrapperPrologue(w, hs, sid, func, signature, args) ==
    EmitInputs(
        EmitType(
            EmitDescription(
                CompositeEmit(w, hs, sid, K_signature, Str(signature)),
                hs, sid,
                \* description = description or ""   (117, 158)
                IF Truthy(func.description) THEN func.description ELSE Str(<<>>)),
            hs, sid, func.type),
        hs, sid, _inputs(func, args))

\* Inside the wrapper the name `type` is the wrapper factory's keyword argument
\* (115, 156), a str or None, and no longer the builtin: type(e) calls it.
IsCallable(v) == DOMAIN v = {"cls"}
E_notCallable == Exc("TypeError", <<"c","a","l","l">>, TRUE)
\* traceback.format_tb(tb, limit=None) is called with no argument   (142, 182)
FormatTbArgumentMissing == TRUE
E_missingArgument == Exc("TypeError", <<"t","b">>, TRUE)

\* the payload the handler's dict display describes
ExceptionPayload(e) ==
    Dict1(K_exception,
          Dict((K_type :> [cls |-> e.cls]) @@
               (K_traceback :> List(<<>>)) @@
               (K_message :> Str(e.msg)) @@
               (K_args :> [o |-> e.msg])))

\* `raise e` after the handler's emit r, unless the emit raised
ReRaise(r, e) == IF r.exc = <<>> THEN [w |-> r.w, exc |-> <<e>>] ELSE r

\* except Exception as e: trace("result", {...}); raise e   (136-148, 176-188).
\* The dict display is evaluated before trace is called: type(e) first, then
\* traceback.format_tb().  Gives the world and the exception that leaves the
\* handler.
ExceptHandler(w, hs, sid, func, e) ==
    IF ~IsCallable(func.type) THEN [w |-> w, exc |-> <<E_notCallable>>]
    ELSE IF FormatTbArgumentMissing THEN [w |-> w, exc |-> <<E_missingArgument>>]
    ELSE ReRaise(CompositeEmit(w, hs, sid, K_result, ExceptionPayload(e)), e)

-----------------------------------------------------------------------------
(* The state machine *)

MaxEmits == 2    \* emits made by hand inside one span

NoFunc == [name |-> <<>>, module |-> <<>>, qualname |-> <<>>, async |-> FALSE,
           description |-> None, type |-> None, params |-> <<>>]

Returned(v) == [kind |-> "return", value |-> v]
Raised(e)   == [kind |-> "raise", exc |-> e]

\* the record kept of one Tracer.start call
NewSpan(c, kind, func, name, hs) ==
    [chain |-> c, kind |-> kind, func |-> func, name |-> name, handles |-> hs,
     parent |-> IF calls[c] = <<>> THEN 0 ELSE calls[c][Len(calls[c])],
                           \* the span of the caller, 0 at the root of a chain
     registered |-> tracers,
                           \* the registry when Tracer.start was called
     entered |-> FALSE,    \* Tracer.start yielded: the with block was entered
     awaited |-> FALSE,    \* the body was suspended at an await
     args |-> [pos |-> <<>>, kw |-> <<>>],  \* what a wrapped callable was called with
     invoked |-> FALSE,    \* the wrapper called its target
     emits |-> 0,          \* emits made by hand in the body
     returned |-> <<>>,    \* what the target returned, once it has
     raised |-> <<>>,      \* what the target (or the body) raised, once it has
     outcome |-> <<>>]     \* what came back to the caller, once the span is over

Top(c) == calls[c][Len(calls[c])]
Pop(c) == [calls EXCEPT ![c] = SubSeq(@, 1, Len(@) - 1)]

SetWorld(w) ==
    /\ stack' = w.stack
    /\ heap' = w.heap
    /\ artifacts' = w.artifacts
    /\ clock' = w.clock
    /\ log' = w.log

\* a chain can be suspended at an await only if no ordinary (non-suspending)
\* function is on its call stack
CanSuspend(c) == \A i \in DOMAIN calls[c] : spans[calls[c][i]].kind # "sync"

\* the event loop gives the interpreter to a chain
Resume(c) ==
    /\ running = 0
    /\ running' = c
    /\ UNCHANGED <<tracers, stack, heap, artifacts, clock, log, spans, calls>>

\* `await` inside the body of a suspending target: the chain gives the
\* interpreter back   (174)
Await(c) ==
    /\ running = c
    /\ CanSuspend(c)
    /\ running' = 0
    /\ spans' = IF calls[c] = <<>> THEN spans
                ELSE [spans EXCEPT ![Top(c)].awaited = TRUE]
    /\ UNCHANGED <<tracers, stack, heap, artifacts, clock, log, calls>>

\* Tracer.add(name, tracer)   (30-34)
TracerAdd(name, factory) ==
    /\ tracers' = RegistryAdd(tracers, name, factory)
    /\ UNCHANGED <<stack, heap, artifacts, clock, log, spans, calls, running>>

\* Tracer.clear()   (36-38)
TracerClear ==
    /\ tracers' = <<>>
    /\ UNCHANGED <<stack, heap, artifacts, clock, log, spans, calls, running>>

\* The span sid of chain c is over: x is what leaving its scopes did, span its
\* record, ret what the caller gets if nothing was raised.
Left(c, sid, span, ret, x) ==
    /\ SetWorld(x.w)
    /\ spans' = [spans EXCEPT ![sid] =
                    [span EXCEPT !.outcome = IF x.exc = <<>> THEN <<ret>>
                                             ELSE <<Raised(x.exc[1])>>]]
    /\ calls' = Pop(c)

\* Leave as it would be were the scopes released by a plain call after the body
\* and not by a with block: a body that raises skips the teardown
Leave_NoTeardownOnRaise(c, sid, span, ret, io, r) ==
    IF r.exc = <<>>
    THEN Left(c, sid, span, ret, ExitAll(r.w, span.handles, sid, io, r.exc))
    ELSE Left(c, sid, span, ret, r)

\* the with block of span sid is left after r: its scopes are torn down   (122, 163)
Leave(c, sid, span, ret, io, r) ==
    Left(c, sid, span, ret, ExitAll(r.w, span.handles, sid, io, r.exc))

\* a span that was over before its body began: its scopes failed to open (x is
\* the unwinding) or its prologue raised (x is the teardown)
CallFailed(span, x) ==
    /\ SetWorld(x.w)
    /\ spans' = Append(spans, [span EXCEPT !.outcome = <<Raised(x.exc[1])>>])
    /\ UNCHANGED calls

\* after the wrapper's prologue pre: the target is called, unless it raised
CallEntered(c, io, sid, span, pre) ==
    IF pre.exc # <<>>
    THEN CallFailed(span, ExitAll(pre.w, span.handles, sid, io, pre.exc))
    ELSE /\ SetWorld(pre.w)
         /\ spans' = Append(spans, [span EXCEPT !.invoked = TRUE])
         /\ calls' = [calls EXCEPT ![c] = Append(@, sid)]

\* after Tracer.start st: the wrapper's prologue runs, unless a scope failed to open
CallStarted(c, func, args, io, sid, nm, st) ==
    IF st.exc # <<>>
    THEN CallFailed([NewSpan(c, IF func.async THEN "async" ELSE "sync", func,
                             nm.name, st.handles) EXCEPT !.args = args], st)
    ELSE CallEntered(c, io, sid,
                     [NewSpan(c, IF func.async THEN "async" ELSE "sync", func,
                              nm.name, st.handles) EXCEPT !.entered = TRUE,
                                                          !.args = args],
                     WrapperPrologue(st.w, st.handles, sid, func, nm.signature, args))

CallNamed(c, func, args, io, sid, nm) ==
    CallStarted(c, func, args, io, sid, nm,
                TracerStart(World, tracers, nm.name, sid, io))

\* A call of a wrapped callable, up to the call of its target   (120-134,
\* 161-174): _name, Tracer.start, the emits of signature, description, type and
\* inputs.  If a scope fails to open, or binding or an emit raises, the call is
\* over with that exception.  A suspending callable is awaited, so only by a
\* chain that can suspend.
Call(c, func, args, io) ==
    /\ running = c
    /\ func.async => CanSuspend(c)
    /\ CallNamed(c, func, args, io, Len(spans) + 1, _name(func, args))
    /\ UNCHANGED <<tracers, running>>

IsWrapper(sp) == sp.kind \in {"sync", "async"}

\* the try block after the emit e of the result: an emit that raised lands in
\* the handler   (135-136, 175-176)
Handled(e, span, sid) ==
    IF e.exc = <<>> THEN e
    ELSE ExceptHandler(e.w, span.handles, sid, span.func, e.exc[1])

\* The target returns v: the wrapper emits the result, leaves the span and
\* returns v   (134-135, 150; 174-175, 190).
Return(c, v, io) ==
    /\ running = c
    /\ calls[c] # <<>>
    /\ IsWrapper(spans[Top(c)])
    /\ Leave(c, Top(c), [spans[Top(c)] EXCEPT !.returned = <<v>>], Returned(v), io,
             Handled(CompositeEmit(World, spans[Top(c)].handles, Top(c),
                                   K_result, _results(v)),
                     spans[Top(c)], Top(c)))
    /\ UNCHANGED <<tracers, running>>

\* The target raises e: an Exception goes through the handler, any other
\* BaseException passes it by; the span is left and an exception reaches the
\* caller   (136-148, 176-188).
Raise(c, e, io) ==
    /\ running = c
    /\ calls[c] # <<>>
    /\ IsWrapper(spans[Top(c)])
    /\ Leave(c, Top(c), [spans[Top(c)] EXCEPT !.raised = <<e>>], Returned(None), io,
             IF e.isException
             THEN ExceptHandler(World, spans[Top(c)].handles, Top(c),
                                spans[Top(c)].func, e)
             ELSE [w |-> World, exc |-> <<e>>])
    /\ UNCHANGED <<tracers, running>>

\* after Tracer.start st, called by hand: the block is entered, unless a scope
\* failed to open
Started(c, sid, span, st) ==
    IF st.exc # <<>>
    THEN CallFailed(span, st)
    ELSE /\ SetWorld(st.w)
         /\ spans' = Append(spans, [span EXCEPT !.entered = TRUE])
         /\ calls' = [calls EXCEPT ![c] = Append(@, sid)]

StartedScopes(c, name, sid, st) ==
    Started(c, sid, NewSpan(c, "manual", NoFunc, name, st.handles), st)

\* `with Tracer.start(name) as t:` written by hand: the block is entered   (40-47)
Start(c, name, io) ==
    /\ running = c
    /\ StartedScopes(c, name, Len(spans) + 1,
                     TracerStart(World, tracers, name, Len(spans) + 1, io))
    /\ UNCHANGED <<tracers, running>>

\* after the emit e made by hand: the block goes on, or is left by what e raised
Emitted(c, sid, span, io, e) ==
    IF e.exc = <<>>
    THEN /\ SetWorld(e.w)
         /\ spans' = [spans EXCEPT ![sid] = span]
         /\ UNCHANGED calls
    ELSE Leave(c, sid, [span EXCEPT !.raised = e.exc], Returned(None), io, e)

\* t(key, value) inside such a block; an emit that raises leaves the block   (47-51)
Emit(c, key, value, io) ==
    /\ running = c
    /\ calls[c] # <<>>
    /\ spans[Top(c)].kind = "manual"
    /\ spans[Top(c)].emits < MaxEmits
    /\ Emitted(c, Top(c), [spans[Top(c)] EXCEPT !.emits = @ + 1], io,
               CompositeEmit(World, spans[Top(c)].handles, Top(c), key, value))
    /\ UNCHANGED <<tracers, running>>

\* the block is left, by reaching its end (exc = <<>>) or by an exception
\* raised in its body (exc = <<e>>)   (43, 51)
Exit(c, exc, io) ==
    /\ running = c
    /\ calls[c] # <<>>
    /\ spans[Top(c)].kind = "manual"
    /\ Leave(c, Top(c), [spans[Top(c)] EXCEPT !.raised = exc], Returned(None), io,
             [w |-> World, exc |-> exc])
    /\ UNCHANGED <<tracers, running>>

-----------------------------------------------------------------------------
(* Inputs *)

S_f == <<"f">>
S_g == <<"g">>
S_m == <<"m">>
S_x == <<"x">>
S_y == <<"y">>
S_d == <<"d","o","c">>
S_t == <<"L","L","M">>

Param(name) == [name |-> name, default |-> <<>>]
ParamWithDefault(name, v) == [name |-> name, default |-> <<v>>]

\* def f(x, y) in module m, wrapped by trace(description=..., type=...)
Func(name, async, description, type) ==
    [name |-> name, module |-> S_m, qualname |-> name, async |-> async,
     description |-> description, type |-> type,
     params |-> <<Param(S_x), Param(S_y)>>]

Args(pos) == [pos |-> pos, kw |-> <<>>]
ArgsOk  == Args(<<Num(2), Num(3)>>)
ArgsBad == Args(<<Num(2)>>)          \* y is missing: bind raises

E_value  == Exc("ValueError", <<"b","o","o","m">>, TRUE)
E_cancel == Exc("CancelledError", <<>>, FALSE)

R_prompty == [name |-> "prompty", factory |-> F_prompty]
R_console == [name |-> "console", factory |-> F_console]
R_badopen == [name |-> "badopen", factory |-> F_badopen]
R_bademit == [name |-> "bademit", factory |-> F_bademit]

InitWith(regs, chains) ==
    /\ tracers \in regs
    /\ stack = <<>>
    /\ heap = <<>>
    /\ artifacts = <<>>
    /\ clock = 0
    /\ log = <<>>
    /\ spans = <<>>
    /\ calls = [c \in chains |-> <<>>]
    /\ running = 0

-----------------------------------------------------------------------------
(* Spec: one call chain calling wrapped callables, ordinary and suspending,  *)
(* with and without metadata, nested, with the recorder and the console      *)
(* registered, or the console and a plugin whose emit raises.                *)

MaxCalls == 2    \* calls of wrapped callables in one run

WrappedFuncs ==
    { Func(S_f, FALSE, None, None),
      Func(S_f, FALSE, Str(S_d), Str(S_t)),
      Func(S_g, TRUE, Str(<<>>), Str(S_t)),
      Func(S_g, TRUE, Str(S_d), None) }

WrapperRegistries ==
    { <<R_prompty, R_console>>, <<R_console, R_bademit, R_prompty>> }

OneChain == {1}

Init == InitWith(WrapperRegistries, OneChain)

WCall(c) ==
    /\ Len(spans) < MaxCalls
    /\ \E func \in WrappedFuncs, args \in {ArgsOk, ArgsBad} : Call(c, func, args, TRUE)

WReturn(c) == \E v \in {Num(5), None} : Return(c, v, TRUE)

WRaise(c) == \E e \in {E_value, E_cancel} : Raise(c, e, TRUE)

Next ==
    \E c \in OneChain :
        \/ Resume(c)
        \/ Await(c)
        \/ WCall(c)
        \/ WReturn(c)
        \/ WRaise(c)

Spec == Init /\ [][Next]_vars

-----------------------------------------------------------------------------
(* SpecFan: the registry is filled (and cleared) at configuration time with   *)
(* the recorder, the console and a plugin whose scope fails to open; then one *)
(* chain opens spans by hand, emits into them and leaves them, at the end of  *)
(* the block or by an exception.                                              *)

MaxFanSpans == 1    \* Tracer.start calls in one run of SpecFan

K_apikey   == <<"a","p","i","_","k","e","y">>
K_password == <<"P","a","s","s","w","o","r","d">>
K_note     == <<"n","o","t","e">>
S_abcd     == <<"a","b","c","d">>
S_pw       == <<"p","w">>
S_span     == <<"s","p","a","n">>

FanSinks == {R_prompty, R_console, R_badopen}

\* the (key, value) pairs emitted by hand
FanPairs ==
    { <<K_apikey, Str(S_abcd)>>,
      <<K_note, Str(S_abcd)>>,
      <<K_inputs, Dict((K_password :> Str(S_pw)) @@ (S_x :> None))>> }

InitFan == InitWith({<<>>}, OneChain)

FanAdd ==
    /\ Len(spans) = 0
    /\ \E r \in FanSinks : TracerAdd(r.name, r.factory)

FanClear ==
    /\ Len(spans) = 0
    /\ tracers # <<>>
    /\ TracerClear

FanStart(c) ==
    /\ Len(spans) < MaxFanSpans
    /\ Start(c, S_span, TRUE)

FanEmit(c) == \E pair \in FanPairs : Emit(c, pair[1], pair[2], TRUE)

FanExit(c) == \E exc \in {<<>>, <<E_value>>} : Exit(c, exc, TRUE)

NextFan ==
    \/ FanAdd
    \/ FanClear
    \/ \E c \in OneChain :
          \/ Resume(c)
          \/ FanStart(c)
          \/ FanEmit(c)
          \/ FanExit(c)

SpecFan == InitFan /\ [][NextFan]_vars

-----------------------------------------------------------------------------
(* SpecRec: one call chain with the recorder registered; wrapped callables    *)
(* are called one inside another and one after another, and return results    *)
(* that carry usage, as one mapping or as a list of chunks, or raise.         *)

MaxRecSpans == 3    \* calls of wrapped callables in one run of SpecRec

S_a == <<"a">>
S_b == <<"b">>
K_tokens == <<"t","o","k","e","n","s">>

Usage(u) == Dict1(K_resultUsage, Dict(u))

\* what the targets return
RecResults ==
    { Usage(S_a :> Num(2)),
      Usage((S_a :> Num(3)) @@ (S_b :> Num(1))),
      List(<<Usage(S_a :> Num(2)), Str(S_abcd), Usage(K_tokens :> Num(4))>>),
      Num(5) }

RecFuncs == { Func(S_f, FALSE, None, None) }

InitRec == InitWith({<<R_prompty>>}, OneChain)

RecCall(c) ==
    /\ Len(spans) < MaxRecSpans
    /\ \E func \in RecFuncs : Call(c, func, ArgsOk, TRUE)

RecReturn(c) == \E v \in RecResults : Return(c, v, TRUE)

RecRaise(c) == Raise(c, E_value, TRUE)

NextRec ==
    \E c \in OneChain :
        \/ Resume(c)
        \/ RecCall(c)
        \/ RecReturn(c)
        \/ RecRaise(c)

SpecRec == InitRec /\ [][NextRec]_vars

-----------------------------------------------------------------------------
(* SpecChain: one call chain with the recorder registered; wrapped callables, *)
(* ordinary and suspending, are called one inside another and one after       *)
(* another; the suspending ones are suspended inside their bodies and         *)
(* resumed; each returns or raises.                                           *)

MaxChainSpans == 3    \* calls of wrapped callables in one run of SpecChain

ChainFuncs == { Func(S_f, FALSE, None, None), Func(S_g, TRUE, None, None) }

InitChain == InitWith({<<R_prompty>>}, OneChain)

ChainCall(c) ==
    /\ Len(spans) < MaxChainSpans
    /\ \E func \in ChainFuncs : Call(c, func, ArgsOk, TRUE)

ChainReturn(c) == Return(c, Num(5), TRUE)

ChainRaise(c) == Raise(c, E_value, TRUE)

NextChain ==
    \E c \in OneChain :
        \/ Resume(c)
        \/ Await(c)
        \/ ChainCall(c)
        \/ ChainReturn(c)
        \/ ChainRaise(c)

SpecChain == InitChain /\ [][NextChain]_vars

-----------------------------------------------------------------------------
(* SpecConc: two call chains (two tasks of one event loop) call suspending    *)
(* wrapped callables with one recorder registered; a chain runs from the      *)
(* moment the loop resumes it to its next await.                              *)

MaxConcSpans == 2    \* calls of wrapped callables in one run of SpecConc

TwoChains == {1, 2}

ConcFuncs == { Func(S_g, TRUE, None, None) }

InitConc == InitWith({<<R_prompty>>}, TwoChains)

ConcCall(c) ==
    /\ Len(spans) < MaxConcSpans
    /\ \E func \in ConcFuncs : Call(c, func, ArgsOk, TRUE)

ConcReturn(c) == \E v \in {Num(5), Usage(S_a :> Num(2))} : Return(c, v, TRUE)

ConcRaise(c) == Raise(c, E_value, TRUE)

NextConc ==
    \E c \in TwoChains :
        \/ Resume(c)
        \/ Await(c)
        \/ ConcCall(c)
        \/ ConcReturn(c)
        \/ ConcRaise(c)

SpecConc == InitConc /\ [][NextConc]_vars

-----------------------------------------------------------------------------
(* What the log and the span records say *)

\* the events of one kind that one sink observed for one span
Events(op, sink, sid) ==
    LET Match(ev) == ev.op = op /\ ev.sink = sink /\ ev.span = sid
    IN SelectSeq(log, Match)

\* the emits one sink received for one span under one key
EmitsOf(sink, sid, key) ==
    LET Match(ev) == ev.op = "emit" /\ ev.sink = sink /\ ev.span = sid /\ ev.key = key
    IN SelectSeq(log, Match)

\* the keys of the emit calls made on a span's callback, in order
KeysOf(sid) ==
    LET Match(ev) == ev.op = "call" /\ ev.span = sid
        calls_ == SelectSeq(log, Match)
    IN [i \in DOMAIN calls_ |-> calls_[i].key]

Over(sp) == sp.outcome # <<>>

\* the span is a call of a wrapped callable whose target raised an Exception,
\* and the call is over
TargetFailed(sp) ==
    /\ IsWrapper(sp)
    /\ Over(sp)
    /\ sp.raised # <<>>
    /\ sp.raised[1].isException

-----------------------------------------------------------------------------
(* Claims checked under Spec *)

\* C1 (as stated): when the target of a wrapped callable raises an exception e,
\* every sink of the span receives exactly one `result` emit, whose value is
\* {exception: {...}} with message str(e), and the exception that reaches the
\* caller is e itself.
C1_FailureRecordedAndReraised ==
    \A sid \in DOMAIN spans :
        TargetFailed(spans[sid]) =>
            /\ \A i \in DOMAIN spans[sid].handles :
                  LET got == EmitsOf(spans[sid].handles[i].sink, sid, K_result)
                  IN /\ Len(got) = 1
                     /\ IsDict(got[1].value)
                     /\ K_exception \in DOMAIN got[1].value.d
                     /\ got[1].value.d[K_exception].d[K_message]
                            = Str(spans[sid].raised[1].msg)
            /\ spans[sid].outcome[1] = Raised(spans[sid].raised[1])

\* the frames of the recorder that are pushed and not popped are as many as
\* the spans that are not over
OpenSpans == {sid \in DOMAIN spans : ~Over(spans[sid])}

\* C2: for every call of a wrapped callable, every registered sink sees exactly
\* one scope open, and exactly one scope close once the call is over (none
\* before), whether the target returned, the target raised, or binding or an
\* emit inside the span raised; no frame of the recorder stays pushed for a
\* call that is over.
C2_OneScopePerInvocation ==
    /\ \A sid \in DOMAIN spans :
          \A i \in DOMAIN tracers :
              /\ Len(Events("open", tracers[i].name, sid)) = 1
              /\ Len(Events("close", tracers[i].name, sid))
                    = IF Over(spans[sid]) THEN 1 ELSE 0
    /\ Len(stack) = Cardinality(OpenSpans)

\* a call whose target raised, one whose bind raised and one whose emit raised
\* are over, each with its scopes closed
C2_Witness ==
    /\ \E sid \in DOMAIN spans :
          /\ TargetFailed(spans[sid])
          /\ Len(spans[sid].handles) >= 2
          /\ \A i \in DOMAIN tracers : Len(Events("close", tracers[i].name, sid)) = 1
    /\ \E sid \in DOMAIN spans :
          /\ Over(spans[sid])
          /\ ~spans[sid].invoked
          /\ \A i \in DOMAIN tracers : Len(Events("close", tracers[i].name, sid)) = 1

\* the keys a call of func emits before it calls its target
PrologueKeys(func) ==
    <<K_signature>>
    \o (IF func.description \in {None, Str(<<>>)} THEN <<>> ELSE <<K_description>>)
    \o (IF func.type \in {None, Str(<<>>)} THEN <<>> ELSE <<K_type>>)
    \o <<K_inputs>>

\* C10 (as stated): the keys emitted within the span of a call are signature,
\* description (if non-empty), type (if non-empty), inputs, all before the
\* target is called, then exactly one result once the target has finished,
\* and nothing else, for the ordinary and the suspending wrapper alike.
C10_EmissionOrder ==
    \A sid \in DOMAIN spans :
        (IsWrapper(spans[sid]) /\ spans[sid].invoked) =>
            KeysOf(sid) = PrologueKeys(spans[sid].func)
                          \o (IF Over(spans[sid]) THEN <<K_result>> ELSE <<>>)

-----------------------------------------------------------------------------
(* Claims checked under SpecFan *)

\* the sinks that observed events of one kind for one span, in the order of
\* the events
SinksOf(op, sid) ==
    LET Match(ev) == ev.op = op /\ ev.span = sid
        evs == SelectSeq(log, Match)
    IN [i \in DOMAIN evs |-> evs[i].sink]

Reverse(seq) == [i \in DOMAIN seq |-> seq[Len(seq) + 1 - i]]

HandleSinks(sid) == [i \in DOMAIN spans[sid].handles |-> spans[sid].handles[i].sink]

S_stars4 == <<"*","*","*","*">>

\* C7: every call emit(key, value) of a span's callback is followed in the log
\* by its delivery to every sink opened for the span, in registration order,
\* each receiving (key, sanitize(key, to_dict(value))); no sink receives
\* anything else; and "abcd" under "api_key" arrives as "****", "pw" under
\* "Password" inside a dict as "**", at every sink.
C7_FanOutSanitized ==
    /\ \A p \in DOMAIN log :
          log[p].op = "call" =>
              \A i \in DOMAIN spans[log[p].span].handles :
                  /\ p + i <= Len(log)
                  /\ log[p + i].op = "emit"
                  /\ log[p + i].span = log[p].span
                  /\ log[p + i].sink = spans[log[p].span].handles[i].sink
                  /\ log[p + i].sink = tracers[i].name
                  /\ log[p + i].key = log[p].key
                  /\ log[p + i].value = sanitize(log[p].key, to_dict(log[p].value))
    /\ \A q \in DOMAIN log :
          log[q].op = "emit" =>
              /\ \E p \in 1..(q - 1) :
                    /\ log[p].op = "call"
                    /\ log[p].span = log[q].span
                    /\ log[p].key = log[q].key
                    /\ q - p <= Len(spans[log[q].span].handles)
              /\ log[q].key = K_apikey => log[q].value = Str(S_stars4)
              /\ log[q].key = K_note => log[q].value = Str(S_abcd)
              /\ log[q].key = K_inputs =>
                    log[q].value = Dict((K_password :> Str(<<"*","*">>)) @@
                                        (S_x :> Str(S_None)))

\* "abcd" was emitted under "api_key" into a span with two sinks, and both
\* have received "****"
C7_Witness ==
    \E sid \in DOMAIN spans :
        /\ Len(spans[sid].handles) = 2
        /\ \A i \in DOMAIN spans[sid].handles :
              /\ Len(EmitsOf(spans[sid].handles[i].sink, sid, K_apikey)) = 1
              /\ EmitsOf(spans[sid].handles[i].sink, sid, K_apikey)[1].value
                    = Str(S_stars4)

\* C8: Tracer.start opens one scope per registered factory, in registration
\* order (up to a factory that fails to open), and once the span is over,
\* whether its body reached its end or raised, every scope that was opened
\* has been torn down exactly once, in the reverse of the opening order; none
\* is torn down before.
C8_TeardownInReverse ==
    \A sid \in DOMAIN spans :
        /\ SinksOf("open", sid) = HandleSinks(sid)
        /\ \A i \in DOMAIN spans[sid].handles :
              spans[sid].handles[i].sink = tracers[i].name
        /\ spans[sid].entered => Len(spans[sid].handles) = Len(tracers)
        /\ SinksOf("close", sid) =
              IF Over(spans[sid]) THEN Reverse(HandleSinks(sid)) ELSE <<>>

\* a span with two sinks whose body raised is over
C8_Witness ==
    \E sid \in DOMAIN spans :
        /\ Over(spans[sid])
        /\ spans[sid].entered
        /\ spans[sid].raised # <<>>
        /\ Len(spans[sid].handles) = 2
        /\ SinksOf("close", sid) = Reverse(HandleSinks(sid))
        /\ SinksOf("close", sid) # SinksOf("open", sid)

\* C9: when the k-th registered factory fails to open its scope, the failure
\* reaches the caller of start only after the k-1 scopes opened before it
\* have been torn down, last opened first; no scope after the k-th is opened
\* and nothing is emitted into the span: its body never runs.
C9_PartialOpenUnwound ==
    \A sid \in DOMAIN spans :
        (\E k \in DOMAIN tracers :
            /\ tracers[k].factory = F_badopen
            /\ \A j \in 1..(k - 1) : tracers[j].factory # F_badopen) =>
            LET k == CHOOSE k \in DOMAIN tracers :
                        /\ tracers[k].factory = F_badopen
                        /\ \A j \in 1..(k - 1) : tracers[j].factory # F_badopen
            IN /\ ~spans[sid].entered
               /\ spans[sid].outcome = <<Raised(E_open)>>
               /\ SinksOf("open", sid) = [i \in 1..(k - 1) |-> tracers[i].name]
               /\ SinksOf("close", sid) = Reverse(SinksOf("open", sid))
               /\ KeysOf(sid) = <<>>
               /\ \A c \in DOMAIN calls :
                     \A i \in DOMAIN calls[c] : calls[c][i] # sid
               /\ Len(stack) = 0

\* the third of three factories failed to open, after the recorder and the
\* console had opened
C9_Witness ==
    \E sid \in DOMAIN spans :
        /\ Len(tracers) = 3
        /\ tracers[3].factory = F_badopen
        /\ ~spans[sid].entered
        /\ Len(SinksOf("close", sid)) = 2
        /\ artifacts # <<>>

-----------------------------------------------------------------------------
(* Claims checked under SpecRec, SpecChain and SpecConc *)

\* the frame of the recorder that the scope of a span pushed: the one its add
\* callback writes to
FrameOf(sid) ==
    LET IsRecorder(h) == h.factory = F_prompty
    IN SelectSeq(spans[sid].handles, IsRecorder)[1].fid

\* the position in the log of the recorder's open or close of a span, 0 if none
RecorderPos(op, sid) ==
    LET ps == {p \in DOMAIN log : /\ log[p].op = op
                                  /\ log[p].span = sid
                                  /\ log[p].sink = R_prompty.name}
    IN IF ps = {} THEN 0 ELSE CHOOSE p \in ps : \A q \in ps : p <= q

\* the frames listed under "__frames" of a frame
ChildrenOf(fid) ==
    IF K_frames \in DOMAIN heap[fid]
    THEN [i \in DOMAIN heap[fid][K_frames].l |-> heap[fid][K_frames].l[i].ref]
    ELSE <<>>

\* the usage mappings carried by what the target of a span returned
OwnUsages(sp) ==
    LET Carries(v) == /\ IsDict(v)
                      /\ K_resultUsage \in DOMAIN v.d
                      /\ IsDict(v.d[K_resultUsage])
        UsageOf(seq) == [i \in DOMAIN seq |-> seq[i].d[K_resultUsage].d]
    IN IF sp.returned = <<>> THEN <<>>
       ELSE IF IsDict(sp.returned[1])
       THEN UsageOf(SelectSeq(<<sp.returned[1]>>, Carries))
       ELSE IF IsList(sp.returned[1])
       THEN UsageOf(SelectSeq(sp.returned[1].l, Carries))
       ELSE <<>>

\* the "__usage" of the direct children of a frame
ChildUsages(fid) ==
    LET HasUsage(g) == K_usage \in DOMAIN heap[g]
        with == SelectSeq(ChildrenOf(fid), HasUsage)
    IN [i \in DOMAIN with |-> heap[with[i]][K_usage].d]

RECURSIVE SumAt(_, _, _)
SumAt(ds, k, i) ==
    IF i > Len(ds) THEN 0
    ELSE (IF k \in DOMAIN ds[i] THEN ds[i][k].n ELSE 0) + SumAt(ds, k, i + 1)

\* the sum per key of a sequence of usage mappings, a missing key counting 0
Total(ds) ==
    [k \in UNION {DOMAIN ds[i] : i \in DOMAIN ds} |-> Num(SumAt(ds, k, 1))]

UsageSources(sid) == OwnUsages(spans[sid]) \o ChildUsages(FrameOf(sid))

\* C3: the "__usage" of a closed frame is, per key, the sum of the usage its
\* own result carried (one mapping, or the elements of a list that carry one)
\* and of the "__usage" of its direct children, a missing key counting as 0;
\* a frame with no such source has no "__usage"; a root whose result carried
\* {a: 2}, with one child whose result carried {a: 3, b: 1}, has {a: 5, b: 1}.
C3_UsageIsSum ==
    \A sid \in DOMAIN spans :
        Over(spans[sid]) =>
            /\ IF UsageSources(sid) = <<>>
               THEN K_usage \notin DOMAIN heap[FrameOf(sid)]
               ELSE /\ K_usage \in DOMAIN heap[FrameOf(sid)]
                    /\ heap[FrameOf(sid)][K_usage] = Dict(Total(UsageSources(sid)))
            /\ \A kid \in DOMAIN spans :
                  ( /\ spans[sid].returned = <<Usage(S_a :> Num(2))>>
                    /\ ChildrenOf(FrameOf(sid)) = <<FrameOf(kid)>>
                    /\ ChildrenOf(FrameOf(kid)) = <<>>
                    /\ spans[kid].returned
                          = <<Usage((S_a :> Num(3)) @@ (S_b :> Num(1)))>> )
                  => heap[FrameOf(sid)][K_usage]
                        = Dict((S_a :> Num(5)) @@ (S_b :> Num(1)))

\* a root whose result carried {a: 2} has closed over two children, one whose
\* result carried {a: 3, b: 1} and one that returned a list of chunks
C3_Witness ==
    \E sid \in DOMAIN spans :
        /\ Over(spans[sid])
        /\ spans[sid].returned = <<Usage(S_a :> Num(2))>>
        /\ Len(ChildrenOf(FrameOf(sid))) = 2
        /\ \E kid \in DOMAIN spans :
              /\ spans[kid].parent = sid
              /\ spans[kid].returned = <<Usage((S_a :> Num(3)) @@ (S_b :> Num(1)))>>
        /\ \E kid \in DOMAIN spans :
              /\ spans[kid].parent = sid
              /\ IsList(spans[kid].returned[1])
        /\ heap[FrameOf(sid)][K_usage]
              = Dict((S_a :> Num(7)) @@ (S_b :> Num(1)) @@ (K_tokens :> Num(4)))

\* how many times a frame is listed under "__frames" of the frame g
ListedIn(fid, g) == Cardinality({i \in DOMAIN ChildrenOf(g) : ChildrenOf(g)[i] = fid})

\* the artifacts written for a frame
ArtifactsOf(fid) == {i \in DOMAIN artifacts : artifacts[i].root = fid}

\* C4: in one chain of properly nested spans, the close of a span writes an
\* artifact exactly when the span has no enclosing span (the close leaves the
\* stack empty), once; the frame of a closed span with an enclosing span is
\* listed once in "__frames" of the enclosing span's frame and written to no
\* artifact of its own; a frame is in no place before its span closes, and in
\* exactly one after.
C4_OneArtifactPerRoot ==
    /\ \A sid \in DOMAIN spans :
          /\ \A g \in DOMAIN heap :
                ListedIn(FrameOf(sid), g) =
                    IF /\ Over(spans[sid])
                       /\ spans[sid].parent # 0
                       /\ g = FrameOf(spans[sid].parent)
                    THEN 1 ELSE 0
          /\ Cardinality(ArtifactsOf(FrameOf(sid))) =
                IF Over(spans[sid]) /\ spans[sid].parent = 0 THEN 1 ELSE 0
          /\ \A i \in ArtifactsOf(FrameOf(sid)) :
                artifacts[i].json.d[K_trace]
                    = Dump(heap, Dict(heap[FrameOf(sid)]))
    /\ \A sid \in DOMAIN spans :
          (Over(spans[sid]) /\ spans[sid].parent = 0) <=>
              (RecorderPos("close", sid) # 0 /\
               \A other \in DOMAIN spans :
                   ~ ( /\ RecorderPos("open", other) < RecorderPos("close", sid)
                       /\ \/ RecorderPos("close", other) = 0
                          \/ RecorderPos("close", other) > RecorderPos("close", sid) ))

\* a root span has closed over two children: one artifact, holding the root
\* with both children in its "__frames"
C4_Witness ==
    \E sid \in DOMAIN spans :
        /\ Over(spans[sid])
        /\ spans[sid].parent = 0
        /\ Len(ChildrenOf(FrameOf(sid))) = 2
        /\ Len(artifacts) = 1
        /\ Len(artifacts[1].json.d[K_trace].d[K_frames].l) = 2

\* C5: in one call chain, every exit of a recorder scope pops the frame that
\* the same scope pushed, and a span never closes while a span opened after it
\* is open: the stack holds the frames of the chain's open spans in the order
\* of their opening, and the closes come in the reverse of the opens, also
\* when the targets are suspending and were suspended inside their bodies.
C5_CloseInReverseOfOpen ==
    /\ \A p \in DOMAIN log :
          (log[p].op = "close" /\ log[p].sink = R_prompty.name) =>
              log[p].popped = FrameOf(log[p].span)
    /\ \A c \in DOMAIN calls :
          stack = [i \in DOMAIN calls[c] |-> FrameOf(calls[c][i])]
    /\ \A s1 \in DOMAIN spans : \A s2 \in DOMAIN spans :
          ( /\ Over(spans[s1])
            /\ RecorderPos("open", s1) < RecorderPos("open", s2)
            /\ RecorderPos("open", s2) < RecorderPos("close", s1) )
          => /\ Over(spans[s2])
             /\ RecorderPos("close", s2) < RecorderPos("close", s1)
    /\ \A sid \in DOMAIN spans :
          heap[FrameOf(sid)][K_name] = Str(spans[sid].name)

\* three suspending calls, one inside another, each suspended inside its body,
\* have closed
C5_Witness ==
    \E s1 \in DOMAIN spans : \E s2 \in DOMAIN spans : \E s3 \in DOMAIN spans :
        /\ spans[s2].parent = s1
        /\ spans[s3].parent = s2
        /\ \A s \in {s1, s2, s3} :
              /\ spans[s].kind = "async"
              /\ spans[s].awaited
              /\ Over(spans[s])
        /\ RecorderPos("close", s3) < RecorderPos("close", s2)
        /\ RecorderPos("close", s2) < RecorderPos("close", s1)

\* C6 (as stated): with two call chains running concurrently over one
\* registered recorder, every exit of a recorder scope pops the frame its own
\* scope pushed, no frame is listed under a frame of the other chain, and the
\* root span of each chain, once over, has an artifact of its own.
C6_ChainsIsolated ==
    /\ \A p \in DOMAIN log :
          (log[p].op = "close" /\ log[p].sink = R_prompty.name) =>
              log[p].popped = FrameOf(log[p].span)
    /\ \A s1 \in DOMAIN spans : \A s2 \in DOMAIN spans :
          ListedIn(FrameOf(s2), FrameOf(s1)) > 0 =>
              spans[s1].chain = spans[s2].chain
    /\ \A sid \in DOMAIN spans :
          (Over(spans[sid]) /\ spans[sid].parent = 0) =>
              Cardinality(ArtifactsOf(FrameOf(sid))) = 1

-----------------------------------------------------------------------------
(* SpecCall: one call chain with the recorder and the console registered     *)
(* calls a function add(x, y) and a suspending method m(self, x, y=7), by     *)
(* position and by keyword; the targets return a number, nothing, or a        *)
(* mapping holding a datetime.                                                *)

MaxCallSpans == 2    \* calls of wrapped callables in one run of SpecCall

S_C == <<"C">>
S_when == <<"w","h","e","n">>

Instance == [inst |-> [cls |-> S_C, module |-> S_m]]

Method(name, async) ==
    [Func(name, async, None, None) EXCEPT
        !.params = <<Param(S_self), Param(S_x), ParamWithDefault(S_y, Num(7))>>]

\* (callable, arguments): add(2, 3); obj.m(2); obj.m(2, y=3); obj.m(x=2)
CallCases ==
    { <<Func(S_f, FALSE, None, None), ArgsOk>>,
      <<Method(S_g, TRUE), Args(<<Instance, Num(2)>>)>>,
      <<Method(S_g, TRUE), [pos |-> <<Instance, Num(2)>>, kw |-> (S_y :> Num(3))]>>,
      <<Method(S_g, TRUE), [pos |-> <<Instance>>, kw |-> (S_x :> Num(2))]>> }

CallResults == { Num(5), None, Dict1(S_when, [dt |-> 3]) }

InitCall == InitWith({<<R_prompty, R_console>>}, OneChain)

CCall(c) ==
    /\ Len(spans) < MaxCallSpans
    /\ \E case \in CallCases : Call(c, case[1], case[2], TRUE)

CReturn(c) == \E v \in CallResults : Return(c, v, TRUE)

NextCall ==
    \E c \in OneChain :
        \/ Resume(c)
        \/ Await(c)
        \/ CCall(c)
        \/ CReturn(c)

SpecCall == InitCall /\ [][NextCall]_vars

\* the values passed to the emit callback of a span under one key, in order
CallValues(sid, key) ==
    LET Match(ev) == ev.op = "call" /\ ev.span = sid /\ ev.key = key
        evs == SelectSeq(log, Match)
    IN [i \in DOMAIN evs |-> evs[i].value]

\* the argument a call gives to its i-th declared parameter
ArgumentOf(sp, i) ==
    IF i <= Len(sp.args.pos) THEN sp.args.pos[i]
    ELSE IF sp.func.params[i].name \in DOMAIN sp.args.kw
         THEN sp.args.kw[sp.func.params[i].name]
         ELSE sp.func.params[i].default[1]

\* declared parameter name -> serialized argument, `self` left out
ExpectedInputs(sp) ==
    [k \in {sp.func.params[i].name : i \in DOMAIN sp.func.params} \ {S_self} |->
        to_dict(ArgumentOf(sp, CHOOSE i \in DOMAIN sp.func.params :
                                   sp.func.params[i].name = k))]

\* C11: a call of a wrapped callable whose target returned v gives v back to
\* its caller; it emitted `inputs` once, the mapping from every declared
\* parameter but `self` to its serialized argument, defaults applied, and
\* `result` once, to_dict(v), or the string "None" when v is None.  add(2, 3)
\* returning 5 emits and records inputs {x: 2, y: 3} and result 5; obj.m(2)
\* emits inputs {x: 2, y: 7}.
C11_ReturnsValueRecordsInputsAndResult ==
    \A sid \in DOMAIN spans :
        (IsWrapper(spans[sid]) /\ Over(spans[sid]) /\ spans[sid].returned # <<>>) =>
            /\ spans[sid].outcome = <<Returned(spans[sid].returned[1])>>
            /\ CallValues(sid, K_inputs) = <<Dict(ExpectedInputs(spans[sid]))>>
            /\ CallValues(sid, K_result) =
                  <<IF spans[sid].returned[1] = None THEN Str(S_None)
                    ELSE to_dict(spans[sid].returned[1])>>
            /\ spans[sid].returned[1] = Dict1(S_when, [dt |-> 3]) =>
                  CallValues(sid, K_result) = <<Dict1(S_when, Str(<<"T", "3">>))>>
            /\ spans[sid].args = ArgsOk =>
                  /\ CallValues(sid, K_inputs)
                        = <<Dict((S_x :> Num(2)) @@ (S_y :> Num(3)))>>
                  /\ heap[FrameOf(sid)][K_inputs]
                        = Dict((S_x :> Num(2)) @@ (S_y :> Num(3)))
                  /\ spans[sid].returned[1] = Num(5) =>
                        /\ heap[FrameOf(sid)][K_result] = Num(5)
                        /\ spans[sid].outcome[1].value = Num(5)
            /\ spans[sid].args = Args(<<Instance, Num(2)>>) =>
                  CallValues(sid, K_inputs)
                      = <<Dict((S_x :> Num(2)) @@ (S_y :> Num(7)))>>

\* add(2, 3) has returned 5 and obj.m(2) has returned nothing
C11_Witness ==
    /\ \E sid \in DOMAIN spans :
          /\ spans[sid].args = ArgsOk
          /\ spans[sid].outcome = <<Returned(Num(5))>>
          /\ heap[FrameOf(sid)][K_result] = Num(5)
    /\ \E sid \in DOMAIN spans :
          /\ spans[sid].args = Args(<<Instance, Num(2)>>)
          /\ spans[sid].outcome = <<Returned(None)>>
          /\ heap[FrameOf(sid)][K_result] = Str(S_None)

-----------------------------------------------------------------------------
(* SpecAdd: one call chain with the recorder registered opens spans by hand   *)
(* and emits the same key into the open frame several times, with values      *)
(* that are numbers, strings and lists.                                       *)

MaxAddSpans == 2    \* Tracer.start calls in one run of SpecAdd

AddValues == { Num(1), Str(S_abcd), List(<<Num(1), Num(2)>>) }

InitAdd == InitWith({<<R_prompty>>}, OneChain)

AddStart(c) ==
    /\ Len(spans) < MaxAddSpans
    /\ Start(c, S_span, TRUE)

AddEmit(c) == \E v \in AddValues : Emit(c, K_note, v, TRUE)

AddExit(c) == Exit(c, <<>>, TRUE)

NextAdd ==
    \E c \in OneChain :
        \/ Resume(c)
        \/ AddStart(c)
        \/ AddEmit(c)
        \/ AddExit(c)

SpecAdd == InitAdd /\ [][NextAdd]_vars

\* the values the recorder's add callback of a span was called with under one
\* key, in order
AddedValues(sid, key) ==
    [i \in DOMAIN EmitsOf(R_prompty.name, sid, key) |->
        EmitsOf(R_prompty.name, sid, key)[i].value]

\* C12 (as stated): after add(k, v1), ..., add(k, vn) on an open frame, the
\* frame's field k is v1 when n = 1 and the list [v1, ..., vn] when n >= 2,
\* whatever the values, lists included.
C12_AddCollectsValues ==
    \A sid \in DOMAIN spans :
        AddedValues(sid, K_note) # <<>> =>
            heap[FrameOf(sid)][K_note] =
                IF Len(AddedValues(sid, K_note)) = 1
                THEN AddedValues(sid, K_note)[1]
                ELSE List(AddedValues(sid, K_note))

-----------------------------------------------------------------------------
(* The shape of the persisted tree, checked under SpecRec *)

\* the spans whose caller is the span sid and that are over, in the order of
\* their opening
ClosedKids(sid) ==
    LET IsKid(k) == spans[k].parent = sid /\ Over(spans[k])
    IN SelectSeq([i \in DOMAIN spans |-> i], IsKid)

\* the span whose frame was on top of the recorder's stack when the span sid
\* opened, by the log: the last one opened before it and not closed before it;
\* 0 if the stack was empty
EnclosingAtOpen(sid) ==
    LET open == {s \in DOMAIN spans :
                    /\ RecorderPos("open", s) < RecorderPos("open", sid)
                    /\ \/ RecorderPos("close", s) = 0
                       \/ RecorderPos("close", s) > RecorderPos("open", sid)}
    IN IF open = {} THEN 0 ELSE CHOOSE s \in open : \A o \in open : o <= s

\* how many spans are open after the p-th event of the log
OpenAfter(p) ==
    Cardinality({q \in 1..p : log[q].op = "open"})
    - Cardinality({q \in 1..p : log[q].op = "close"})

\* the largest number of spans open at once while the span sid was open
MaxOpenDuring(sid) ==
    LET during == {OpenAfter(p) :
                      p \in RecorderPos("open", sid)..(RecorderPos("close", sid) - 1)}
    IN CHOOSE n \in during : \A m \in during : m <= n

\* the depth of a persisted frame: 1 for a frame without children
RECURSIVE TreeDepth(_)
TreeDepth(t) ==
    IF K_frames \notin DOMAIN t.d THEN 1
    ELSE LET below == {TreeDepth(t.d[K_frames].l[i]) : i \in DOMAIN t.d[K_frames].l}
         IN 1 + CHOOSE n \in below : \A m \in below : m <= n

\* C13: in one chain of properly nested spans, the children listed in a
\* frame's "__frames" are the closed spans that opened while that frame was on
\* top of the stack, in the order of their opening, each listed under no other
\* frame; and the depth of a persisted tree is the largest number of spans that
\* were open at once during its root span.
C13_TreeMirrorsNesting ==
    /\ \A sid \in DOMAIN spans :
          /\ ChildrenOf(FrameOf(sid)) =
                [i \in DOMAIN ClosedKids(sid) |-> FrameOf(ClosedKids(sid)[i])]
          /\ spans[sid].parent = EnclosingAtOpen(sid)
          /\ \A other \in DOMAIN spans :
                (other < sid) <=> (RecorderPos("open", other) < RecorderPos("open", sid))
          /\ \A g \in DOMAIN heap :
                ListedIn(FrameOf(sid), g) > 0 => g = FrameOf(EnclosingAtOpen(sid))
    /\ \A i \in DOMAIN artifacts :
          \E sid \in DOMAIN spans :
              /\ FrameOf(sid) = artifacts[i].root
              /\ artifacts[i].json.d[K_trace] = Dump(heap, Dict(heap[FrameOf(sid)]))
              /\ TreeDepth(artifacts[i].json.d[K_trace]) = MaxOpenDuring(sid)

\* a root span has closed over two children, one after the other: a persisted
\* tree of depth 2 with the children in the order of their opening
C13_Witness ==
    \E r \in DOMAIN spans : \E k1 \in DOMAIN spans : \E k2 \in DOMAIN spans :
        /\ Over(spans[r])
        /\ spans[r].parent = 0
        /\ k1 < k2
        /\ ChildrenOf(FrameOf(r)) = <<FrameOf(k1), FrameOf(k2)>>
        /\ Len(artifacts) = 1
        /\ TreeDepth(artifacts[1].json.d[K_trace]) = 2

-----------------------------------------------------------------------------
(* SpecPure: sanitize and to_dict applied to keys and values drawn from small *)
(* sets; every application is kept in the log with what it returned.          *)

MaxApplications == 2    \* applications of sanitize and to_dict in one run

S_token    == <<"t","o","k","e","n">>
S_inner    == <<"i","n","n","e","r">>

PureKeys ==
    { K_apikey,                                 \* api_key
      <<"A","P","I","_","K","E","Y">>,
      <<"m","y","T","o","k","e","n","s">>,
      <<"S","e","c","r","e","t">>,
      K_password,                               \* Password
      <<"c","r","e","d","e","n","t","i","a","l","s">>,
      K_note,                                   \* note
      <<"k","e","_","y">>,
      <<>> }

PureStrings == { Str(<<>>), Str(S_pw), Str(S_abcd) }

\* values that are not strings: a number, a truth value, None, lists and
\* mappings, nested
PureOthers ==
    { Num(7), [b |-> TRUE], None,
      List(<<Str(S_pw), Dict1(K_password, Str(S_pw))>>),
      Dict((K_password :> Str(S_pw)) @@ (K_note :> Str(S_abcd)) @@
           (S_token :> Num(7)) @@
           (S_inner :> Dict((S_token :> Str(S_abcd)) @@ (S_x :> None)))) }

\* JSON-safe values, nested to depth 2
JsonValues ==
    { Str(S_abcd), Num(7), [b |-> FALSE], None, List(<<>>), EmptyDict,
      List(<<None, Num(7), List(<<None, Str(S_pw)>>)>>),
      Dict((S_a :> None) @@ (S_b :> Str(S_abcd)) @@
           (S_x :> List(<<None, Dict1(S_y, None)>>))) }

InitPure == InitWith({<<>>}, OneChain)

\* sanitize(key, value) is called
SanitizeCall(key, value) ==
    /\ log' = Append(log, [op |-> "sanitize", key |-> key, value |-> value,
                           result |-> sanitize(key, value)])
    /\ UNCHANGED <<tracers, stack, heap, artifacts, clock, spans, calls, running>>

\* to_dict(value) is called, and to_dict again on what it returned
ToDictCall(value) ==
    /\ log' = Append(log, [op |-> "to_dict", value |-> value,
                           result |-> to_dict(value),
                           again |-> to_dict(to_dict(value))])
    /\ UNCHANGED <<tracers, stack, heap, artifacts, clock, spans, calls, running>>

PureSanitizeString ==
    /\ Len(log) < MaxApplications
    /\ \E key \in PureKeys, value \in PureStrings : SanitizeCall(key, value)

PureSanitizeOther ==
    /\ Len(log) < MaxApplications
    /\ \E key \in {K_apikey, K_note}, value \in PureOthers : SanitizeCall(key, value)

PureToDict ==
    /\ Len(log) < MaxApplications
    /\ \E value \in JsonValues : ToDictCall(value)

NextPure ==
    \/ PureSanitizeString
    \/ PureSanitizeOther
    \/ PureToDict

SpecPure == InitPure /\ [][NextPure]_vars

\* the keys of PureKeys that contain, whatever the case, one of the words
SensitiveKeys ==
    { K_apikey,
      <<"A","P","I","_","K","E","Y">>,
      <<"m","y","T","o","k","e","n","s">>,
      <<"S","e","c","r","e","t">>,
      K_password,
      <<"c","r","e","d","e","n","t","i","a","l","s">>,
      S_token }

Asterisks(n) == [i \in 1..n |-> "*"]

\* C14: for a key that contains, whatever the case, one of key, token,
\* secret, password, credential, sanitize gives for a string of length n the
\* string of n asterisks; for any other key it gives the string back.
C14_StringsRedactedByKey ==
    \A p \in DOMAIN log :
        (log[p].op = "sanitize" /\ IsStr(log[p].value)) =>
            log[p].result = IF log[p].key \in SensitiveKeys
                            THEN Str(Asterisks(Len(log[p].value.s)))
                            ELSE log[p].value

\* "abcd" was sanitized under API_KEY, and under ke_y
C14_Witness ==
    /\ \E p \in DOMAIN log :
          /\ log[p].op = "sanitize"
          /\ log[p].key = <<"A","P","I","_","K","E","Y">>
          /\ log[p].value = Str(S_abcd)
          /\ log[p].result = Str(S_stars4)
    /\ \E p \in DOMAIN log :
          /\ log[p].op = "sanitize"
          /\ log[p].key = <<"k","e","_","y">>
          /\ log[p].result = Str(S_abcd)

\* what sanitize is to give for a value that is not a string: a mapping with
\* the same keys, each entry redacted by its own key; anything else unchanged
RECURSIVE RedactedByOwnKeys(_)
RedactedByOwnKeys(v) ==
    IF ~IsDict(v) THEN v
    ELSE Dict([k \in DOMAIN v.d |->
                 IF IsStr(v.d[k])
                 THEN IF k \in SensitiveKeys
                      THEN Str(Asterisks(Len(v.d[k].s))) ELSE v.d[k]
                 ELSE RedactedByOwnKeys(v.d[k])])

\* C15: for a mapping, sanitize gives a mapping with the same keys in which
\* each entry is sanitized under its own key, whatever the outer key; every
\* other value that is not a string, a list of strings and of mappings with
\* sensitive keys included, comes back unchanged.
C15_RedactsThroughMappingsOnly ==
    \A p \in DOMAIN log :
        (log[p].op = "sanitize" /\ ~IsStr(log[p].value)) =>
            /\ log[p].result = RedactedByOwnKeys(log[p].value)
            /\ IsDict(log[p].value) =>
                  /\ DOMAIN log[p].result.d = DOMAIN log[p].value.d
                  /\ log[p].result.d[K_password] = Str(<<"*","*">>)
                  /\ log[p].result.d[K_note] = Str(S_abcd)
                  /\ log[p].result.d[S_token] = Num(7)
                  /\ log[p].result.d[S_inner] =
                        Dict((S_token :> Str(S_stars4)) @@ (S_x :> None))
            /\ ~IsDict(log[p].value) => log[p].result = log[p].value

\* the nested mapping and the list were sanitized under api_key
C15_Witness ==
    /\ \E p \in DOMAIN log :
          /\ log[p].op = "sanitize"
          /\ log[p].key = K_apikey
          /\ IsDict(log[p].value)
          /\ log[p].result.d[K_password] = Str(<<"*","*">>)
    /\ \E p \in DOMAIN log :
          /\ log[p].op = "sanitize"
          /\ log[p].key = K_apikey
          /\ IsList(log[p].value)
          /\ log[p].result = log[p].value

RECURSIVE IsJsonSafe(_)
IsJsonSafe(v) ==
    \/ IsStr(v) \/ IsNum(v) \/ IsBool(v) \/ IsNone(v)
    \/ IsList(v) /\ \A i \in DOMAIN v.l : IsJsonSafe(v.l[i])
    \/ IsDict(v) /\ \A k \in DOMAIN v.d : IsJsonSafe(v.d[k])

\* C16: for a JSON-safe value v, to_dict(v) is JSON-safe and
\* to_dict(to_dict(v)) = to_dict(v).
C16_ToDictIdempotent ==
    \A p \in DOMAIN log :
        (log[p].op = "to_dict" /\ IsJsonSafe(log[p].value)) =>
            /\ IsJsonSafe(log[p].result)
            /\ log[p].again = log[p].result

\* to_dict was applied to the nested list and to the nested mapping, both
\* holding None, which it writes as "None"
C16_Witness ==
    /\ \E p \in DOMAIN log :
          /\ log[p].op = "to_dict"
          /\ IsList(log[p].value)
          /\ log[p].result = List(<<Str(S_None), Num(7),
                                    List(<<Str(S_None), Str(S_pw)>>)>>)
    /\ \E p \in DOMAIN log :
          /\ log[p].op = "to_dict"
          /\ IsDict(log[p].value)
          /\ DOMAIN log[p].value.d # {}
          /\ log[p].result # log[p].value

-----------------------------------------------------------------------------
(* Failures that are not Exceptions, checked under Spec *)

\* C17 (as stated): a target that ends by a failure that is not an Exception
\* subclass (a cancellation, an interrupt) is recorded like any other failure:
\* every sink of the span receives one `result` emit carrying the exception
\* payload before the span closes, and the failure reaches the caller
\* unchanged.
C17_CancellationRecorded ==
    \A sid \in DOMAIN spans :
        ( /\ IsWrapper(spans[sid])
          /\ Over(spans[sid])
          /\ spans[sid].raised # <<>>
          /\ ~spans[sid].raised[1].isException ) =>
            /\ \A i \in DOMAIN spans[sid].handles :
                  /\ Len(EmitsOf(spans[sid].handles[i].sink, sid, K_result)) = 1
                  /\ IsDict(EmitsOf(spans[sid].handles[i].sink, sid, K_result)[1].value)
                  /\ K_exception \in
                        DOMAIN EmitsOf(spans[sid].handles[i].sink, sid, K_result)[1].value.d
            /\ spans[sid].outcome = <<Raised(spans[sid].raised[1])>>

-----------------------------------------------------------------------------
(* What the close leaves of the recorded fields, checked under SpecRec *)

\* C18 (as stated): the close of a span changes only "__time" and "__usage"
\* of its frame: every field recorded through add, the result and its nested
\* usage mapping in particular, has after the close the value it was emitted
\* with, also when the frame has children that carry usage.
C18_CloseKeepsRecordedFields ==
    \A sid \in DOMAIN spans :
        Over(spans[sid]) =>
            \A key \in {K_signature, K_inputs, K_result} :
                Len(AddedValues(sid, key)) = 1 =>
                    heap[FrameOf(sid)][key] = AddedValues(sid, key)[1]

-----------------------------------------------------------------------------
(* SpecReg: the registry is changed at any time, also while spans are open:   *)
(* sinks are added, a name is registered again with another factory, the      *)
(* registry is cleared; one chain opens spans by hand, one inside another,    *)
(* emits into them and leaves them.                                           *)

MaxRegSpans == 2    \* Tracer.start calls in one run of SpecReg
MaxRegistry == 2    \* names in the registry in SpecReg

\* (name, factory) as given to Tracer.add; "prompty" is registered with the
\* recorder and, again, with the console
RegAdds ==
    { R_prompty, R_console, [name |-> R_prompty.name, factory |-> F_console] }

InitReg == InitWith({<<>>}, OneChain)

RegAdd ==
    \E r \in RegAdds :
        /\ Len(RegistryAdd(tracers, r.name, r.factory)) <= MaxRegistry
        /\ RegistryAdd(tracers, r.name, r.factory) # tracers
        /\ TracerAdd(r.name, r.factory)

RegClear ==
    /\ tracers # <<>>
    /\ TracerClear

RegStart(c) ==
    /\ Len(spans) < MaxRegSpans
    /\ Start(c, S_span, TRUE)

RegEmit(c) ==
    /\ calls[c] # <<>>
    /\ spans[Top(c)].emits < 1
    /\ Emit(c, K_note, Str(S_abcd), TRUE)

RegExit(c) == Exit(c, <<>>, TRUE)

NextReg ==
    \/ RegAdd
    \/ RegClear
    \/ \E c \in OneChain :
          \/ Resume(c)
          \/ RegStart(c)
          \/ RegEmit(c)
          \/ RegExit(c)

SpecReg == InitReg /\ [][NextReg]_vars

\* C19: the sinks of a span are those registered when Tracer.start was called,
\* one scope per name: whatever Tracer.add and Tracer.clear do afterwards,
\* every emit of the span goes to exactly those sinks and its exit tears down
\* exactly the scopes opened at its start; a span opened later has the sinks
\* registered then; and a name registered again keeps one entry, with the new
\* factory.
C19_SinksFixedAtStart ==
    /\ \A sid \in DOMAIN spans :
          /\ spans[sid].handles =
                [i \in DOMAIN spans[sid].registered |->
                    [sink |-> spans[sid].registered[i].name,
                     factory |-> spans[sid].registered[i].factory,
                     fid |-> spans[sid].handles[i].fid]]
          /\ SinksOf("open", sid) = HandleSinks(sid)
          /\ SinksOf("close", sid) =
                IF Over(spans[sid]) THEN Reverse(HandleSinks(sid)) ELSE <<>>
          /\ SinksOf("emit", sid) =
                IF spans[sid].emits = 1 THEN HandleSinks(sid) ELSE <<>>
          /\ \A i \in DOMAIN spans[sid].handles :
                \A j \in DOMAIN spans[sid].handles :
                    spans[sid].handles[i].sink = spans[sid].handles[j].sink => i = j
    /\ \A i \in DOMAIN tracers : \A j \in DOMAIN tracers :
          tracers[i].name = tracers[j].name => i = j

\* a span opened with the recorder and the console; while it was open the
\* registry was changed and a second span, opened inside it, got other sinks;
\* after that the first span's emit went to its two sinks, and its exit tore
\* both down
C19_Witness ==
    \E s1 \in DOMAIN spans : \E s2 \in DOMAIN spans :
        /\ spans[s2].parent = s1
        /\ Len(spans[s1].registered) = 2
        /\ spans[s2].registered # spans[s1].registered
        /\ spans[s2].registered # <<>>
        /\ Over(spans[s1])
        /\ tracers # spans[s1].registered
        /\ SinksOf("close", s1) = Reverse(HandleSinks(s1))
        /\ \A i \in DOMAIN spans[s1].handles :
              \E p \in DOMAIN log :
                  /\ log[p].op = "emit"
                  /\ log[p].span = s1
                  /\ log[p].sink = spans[s1].handles[i].sink
                  /\ \A q \in DOMAIN log :
                        (log[q].op = "close" /\ log[q].span = s2) => q < p

-----------------------------------------------------------------------------
(* SpecFail: one call chain with the recorder registered; wrapped callables   *)
(* are called one inside another and one after another; their results carry   *)
(* usage that adds up, usage that does not (a string where the parent has a   *)
(* number) or none; writing the trace file succeeds or fails.                 *)

MaxFailSpans == 3    \* calls of wrapped callables in one run of SpecFail

FailResults ==
    { Usage(S_a :> Num(2)), Usage(S_a :> Str(S_abcd)), Num(5) }

InitFail == InitWith({<<R_prompty>>}, OneChain)

FailCall(c) ==
    /\ Len(spans) < MaxFailSpans
    /\ Call(c, Func(S_f, FALSE, None, None), ArgsOk, TRUE)

FailReturn(c) == \E v \in FailResults, io \in BOOLEAN : Return(c, v, io)

FailRaise(c) == \E io \in BOOLEAN : Raise(c, E_value, io)

NextFail ==
    \E c \in OneChain :
        \/ Resume(c)
        \/ FailCall(c)
        \/ FailReturn(c)
        \/ FailRaise(c)

SpecFail == InitFail /\ [][NextFail]_vars

\* the exit of the span's recorder scope itself raised
ExitFailed(sp) ==
    /\ Over(sp)
    /\ sp.outcome[1].kind = "raise"
    /\ sp.outcome[1].exc \in {E_io, E_hoist}

\* C20: with properly nested scopes on one recorder, the stack after a scope
\* has exited is as long as it was before the scope opened, whether the body
\* returned or raised or the exit itself raised, in hoisting usage or in
\* writing the file: at every moment the stack holds exactly the frames of the
\* spans that are open, in order; it is empty when no span is open, and a
\* span opened then is a root, whose artifact holds its own frame.
C20_StackRestoredOnExit ==
    /\ \A c \in DOMAIN calls :
          stack = [i \in DOMAIN calls[c] |-> FrameOf(calls[c][i])]
    /\ \A sid \in DOMAIN spans :
          /\ Over(spans[sid]) => \A i \in DOMAIN stack : stack[i] # FrameOf(sid)
          /\ Len(Events("close", R_prompty.name, sid))
                = IF Over(spans[sid]) THEN 1 ELSE 0
          /\ (Over(spans[sid]) /\ spans[sid].parent = 0 /\ ~ExitFailed(spans[sid])) =>
                \E i \in DOMAIN artifacts :
                    /\ artifacts[i].root = FrameOf(sid)
                    /\ artifacts[i].json.d[K_trace] = Dump(heap, Dict(heap[FrameOf(sid)]))

\* a span nested in the outermost one failed at its exit to add up the usage
\* of its own child, and the outermost span then failed at its exit to write
\* its file: the stack is empty
C20_Witness ==
    \E s1 \in DOMAIN spans : \E s2 \in DOMAIN spans : \E s3 \in DOMAIN spans :
        /\ spans[s1].parent = 0
        /\ spans[s2].parent = s1
        /\ spans[s3].parent = s2
        /\ spans[s3].outcome = <<Returned(Usage(S_a :> Str(S_abcd)))>>
        /\ spans[s2].outcome = <<Raised(E_hoist)>>
        /\ spans[s1].outcome = <<Raised(E_io)>>
        /\ stack = <<>>
        /\ artifacts = <<>>

====
